---- MODULE Spec2Model ----
(***************************************************************************)
(* A model of the OSS-Fuzz build-failure reproduction pipeline:            *)
(*   agent_tools.py          the tools (log queue, revision lookup,        *)
(*                           checkout, build runner, report recorder)      *)
(*   reproduce_note_agent/agent.py   the loop of the two agents            *)
(*                                                                         *)
(* File names, project names and date strings are sequences of one-        *)
(* character strings, so that startswith, "in", split and the lexical      *)
(* order of sorted() are computed character by character.                  *)
(***************************************************************************)
EXTENDS Integers, Sequences, FiniteSets, TLC

(***************************************************************************)
(* Bounds of the model.                                                    *)
(***************************************************************************)
\* the largest number of entries of one project directory in an initial tree
MaxFiles == 2
\* the largest number of entries the queue driver fetches in one run
MaxGets == 5
\* the largest number of lines of a revision feed
MaxFeedLen == 5
\* the largest number of Time/SHA blocks of a feed written by save_data_to_file
MaxBlocks == 3
\* the largest number of lines a build prints
MaxLines == 300
\* the most get_next_error_log calls repeated with no mark call between
MaxRegets == 2
\* the longest file name given to parse_error_log
MaxNameLen == 5
\* the most update_reproduce_table calls of one run of the table's caller
MaxCalls == 3

(***************************************************************************)
(* Strings.                                                                *)
(***************************************************************************)
\* the characters the model uses, in code-point order (Python compares str
\* by code point)
AsciiOrder ==
  << " ", "+", ".", "0", "1", "2", "3", "4", "5", "6", "7", "8", "9", "_",
     "a", "b", "c", "d", "e", "k", "n", "o", "p", "q", "r", "s", "t", "x" >>

Ord(c) == CHOOSE i \in 1..Len(AsciiOrder) : AsciiOrder[i] = c

\* Python's  a < b  on str
RECURSIVE StrLess(_, _)
StrLess(a, b) ==
  IF b = << >> THEN FALSE
  ELSE IF a = << >> THEN TRUE
  ELSE IF Head(a) # Head(b) THEN Ord(Head(a)) < Ord(Head(b))
  ELSE StrLess(Tail(a), Tail(b))

\* sorted(S) for a set of str
RECURSIVE sorted(_)
sorted(S) ==
  IF S = {} THEN << >>
  ELSE LET m == CHOOSE x \in S : \A y \in S \ {x} : StrLess(x, y)
       IN  << m >> \o sorted(S \ {m})

\* s.startswith(prefix)
startswith(s, prefix) ==
  /\ Len(s) >= Len(prefix)
  /\ SubSeq(s, 1, Len(prefix)) = prefix

\* sub in s
Contains(s, sub) ==
  \E i \in 1..(Len(s) - Len(sub) + 1) : SubSeq(s, i, i + Len(sub) - 1) = sub

\* s.split(sep) for a one-character sep: the list of the parts, empty parts kept
RECURSIVE split(_, _)
split(s, sep) ==
  IF \A i \in 1..Len(s) : s[i] # sep THEN << s >>
  ELSE LET k == CHOOSE i \in 1..Len(s) :
                  s[i] = sep /\ \A j \in 1..(i - 1) : s[j] # sep
       IN  << SubSeq(s, 1, k - 1) >> \o split(SubSeq(s, k + 1, Len(s)), sep)

\* sep.join(parts)
RECURSIVE join(_, _)
join(parts, sep) ==
  IF parts = << >> THEN << >>
  ELSE IF Len(parts) = 1 THEN parts[1]
  ELSE parts[1] \o << sep >> \o join(Tail(parts), sep)

ERROR_WORD == << "e", "r", "r", "o", "r" >>
PLUS == << "+" >>

(***************************************************************************)
(* The log tree on disk.  tree maps each entry of the log root to          *)
(*   [isdir, readable, writable, files]                                    *)
(* where files maps each entry of that directory to "file" or "dir".       *)
(* readable: os.listdir works on it; writable: os.rename works in it.      *)
(* A path is << project, filename >> (os.path.join of the root with both). *)
(***************************************************************************)
VARIABLES
  logsRootExists,  \* os.path.isdir(logs_directory)
  tree,            \* the log tree now
  tree0,           \* the log tree at the start of the run (history)
  qpc,             \* queue driver: "get", "mark", "finished", "error"
  returned,        \* the paths get_next_error_log returned with 'success', in order
  lastMark,        \* the result of the latest mark_log_as_processed_by_rename
  secondMark,      \* the result of a repeated call on the same path, or NoResult
  marksOk,         \* every mark call so far reported 'success'
  alternating,     \* get and mark strictly alternated so far
  regets,          \* the get calls repeated since the latest get, with no mark between
  getPure          \* every repeated get so far returned what the get before it
                   \* returned, and no get changed the tree

qvars == << logsRootExists, tree, tree0, qpc, returned, lastMark, secondMark,
            marksOk, alternating, regets, getPure >>

VARIABLES
  feedExists,   \* the commits file can be opened
  feed,         \* its lines
  target,       \* target_date_str
  fpc,          \* "call", "done"
  fres          \* the result of find_sha_for_timestamp

fvars == << feedExists, feed, target, fpc, fres >>


VARIABLES
  bpc,          \* "makedirs", "spawn", "reading", "write", "handler",
                \* "returned", "crashed" (an exception left the function)
  sink0,        \* the sink file before the run (history)
  sink,         \* the sink file
  log_buffer,   \* the deque of line 222
  nread,        \* the number of lines read from the child so far
  returncode,   \* process.returncode, -1 before process.wait()
  bstatus,      \* the status returned
  raised        \* an exception was raised inside the try block

bvars == << bpc, sink0, sink, log_buffer, nread, returncode, bstatus, raised >>

VARIABLES
  opc,            \* the step of the loop: "fetch", "parse", "resolve", "checkout",
                  \* "build", "classify", "record", "mark", "done", "crashed"
  iter,           \* times_looped of the LoopAgent
  exited,         \* exit_loop was called (escalate)
  cur,            \* log_path of the current cycle
  error_date,     \* the date parse_error_log returned in this cycle
  sha,            \* the revision find_sha_for_timestamp returned in this cycle
  workcopy,       \* the revision the oss-fuzz working copy is at
  attempt,        \* status of build_attempt_result
  aborted,        \* the step whose failure ended the chain in this cycle, or "none"
  built,          \* the status of the build outcome of this cycle, or "none"
  recordStatus,   \* the status update_reproduce_table returned in this cycle, or "none"
  markCalledOn,   \* the path mark_log_as_processed_by_rename was called on in this cycle
  attempted,      \* the paths fetched in this run (history)
  repeated,       \* a path was fetched that had been fetched before (history)
  lastRank,       \* Rank in the state before the latest step (history)
  checkedOut      \* the status checkout_oss_fuzz_commit returned in this cycle, or "none"

ovars == << opc, iter, exited, cur, error_date, sha, workcopy, attempt, aborted,
            built, recordStatus, markCalledOn, attempted, repeated, lastRank,
            checkedOut >>

VARIABLES
  pname,        \* the file name of the log_path given to parse_error_log
  pres          \* the result of parse_error_log, status "none" before the call

pvars == << pname, pres >>

VARIABLES
  isRepo,       \* os.path.isdir(oss_fuzz_path/.git)
  cwd0,         \* the current working directory before the call (history)
  cwd,          \* the current working directory of the process
  head0,        \* the revision of the working copy before the call (history)
  head,         \* the revision the working copy is at
  csha,         \* the sha argument
  cgit,         \* what chdir and the two git commands did in the call
  cres          \* the status checkout_oss_fuzz_commit returned, or "none"

cvars == << isRepo, cwd0, cwd, head0, head, csha, cgit, cres >>

VARIABLES
  table,        \* reproduce_report.xlsx: [exists, rows]
  table0,       \* the file before the latest update_reproduce_table call (history)
  trow,         \* data_row of the latest call
  tres,         \* the status the latest call returned, or "none"
  tcalls,       \* the number of calls so far
  headers       \* the number of times the header row was written (history)

tvars == << table, table0, trow, tres, tcalls, headers >>

vars == << qvars, fvars, bvars, ovars, pvars, cvars, tvars >>
notQueue == << fvars, bvars, ovars, pvars, cvars, tvars >>
notFeed == << qvars, bvars, ovars, pvars, cvars, tvars >>
notBuild == << qvars, fvars, ovars, pvars, cvars, tvars >>
notParse == << qvars, fvars, bvars, ovars, cvars, tvars >>
notCheckout == << qvars, fvars, bvars, ovars, pvars, tvars >>
notTable == << qvars, fvars, bvars, ovars, pvars, cvars >>

NoPath == << >>
NoResult == [status |-> "none", new_path |-> NoPath]

NoFiles == [n \in {} |-> "file"]
\* a root entry that is a plain file, which line 35 filters out
RootFile == [isdir |-> FALSE, readable |-> TRUE, writable |-> TRUE, files |-> NoFiles]
EmptyTree == [d \in {} |-> RootFile]

dirname(path) == path[1]
basename(path) == path[2]

isdir(t, d) == d \in DOMAIN t /\ t[d].isdir

isfile(t, path) ==
  /\ Len(path) = 2
  /\ isdir(t, dirname(path))
  /\ basename(path) \in DOMAIN t[dirname(path)].files
  /\ t[dirname(path)].files[basename(path)] = "file"

\* ScanFiles without the skip of marked names (lines 48-49 dropped)
RECURSIVE ScanFiles_NoSkip(_, _, _, _)
ScanFiles_NoSkip(t, project_name, log_files, i) ==
  IF i > Len(log_files) THEN << >>
  ELSE LET log_filename == log_files[i]
           full_log_path == << project_name, log_filename >>
       IN  IF Contains(log_filename, ERROR_WORD) /\ isfile(t, full_log_path)
             THEN full_log_path
           ELSE ScanFiles_NoSkip(t, project_name, log_files, i + 1)

\* the inner loop of get_next_error_log over the sorted names of one project
RECURSIVE ScanFiles(_, _, _, _)
ScanFiles(t, project_name, log_files, i) ==
  IF i > Len(log_files) THEN NoPath
  ELSE LET log_filename == log_files[i]
           full_log_path == << project_name, log_filename >>
       IN  IF startswith(log_filename, PLUS)
             THEN ScanFiles(t, project_name, log_files, i + 1)
           ELSE IF Contains(log_filename, ERROR_WORD) /\ isfile(t, full_log_path)
             THEN full_log_path
           ELSE ScanFiles(t, project_name, log_files, i + 1)

\* the outer loop that gives up after the first project directory
ScanProjects_FirstOnly(t, project_dirs, i) ==
  IF i > Len(project_dirs) THEN << >>
  ELSE LET project_name == project_dirs[i]
       IN  IF ~t[project_name].readable THEN << >>
           ELSE ScanFiles(t, project_name, sorted(DOMAIN t[project_name].files), 1)

\* the outer loop that ends the scan at a project directory it cannot list
RECURSIVE ScanProjects_StopAtUnreadable(_, _, _)
ScanProjects_StopAtUnreadable(t, project_dirs, i) ==
  IF i > Len(project_dirs) THEN NoPath
  ELSE LET project_name == project_dirs[i]
       IN  IF ~t[project_name].readable THEN NoPath
           ELSE LET found == ScanFiles(t, project_name,
                                       sorted(DOMAIN t[project_name].files), 1)
                IN  IF found # NoPath THEN found
                    ELSE ScanProjects_StopAtUnreadable(t, project_dirs, i + 1)

\* the outer loop of get_next_error_log over the sorted project directories
RECURSIVE ScanProjects(_, _, _)
ScanProjects(t, project_dirs, i) ==
  IF i > Len(project_dirs) THEN NoPath
  ELSE LET project_name == project_dirs[i]
       IN  IF ~t[project_name].readable
             THEN ScanProjects(t, project_dirs, i + 1)
           ELSE LET found == ScanFiles(t, project_name,
                                       sorted(DOMAIN t[project_name].files), 1)
                IN  IF found # NoPath THEN found
                    ELSE ScanProjects(t, project_dirs, i + 1)

\* a scan that takes the log it returns out of its directory
get_next_error_log_Consuming(rootExists, t) ==
  IF ~rootExists THEN [status |-> "error", log_path |-> NoPath, tree |-> t]
  ELSE LET project_dirs == sorted({d \in DOMAIN t : isdir(t, d)})
           found == ScanProjects(t, project_dirs, 1)
       IN  IF found # NoPath
             THEN [status |-> "success", log_path |-> found,
                   tree |-> [t EXCEPT ![dirname(found)].files =
                               [n \in DOMAIN @ \ {basename(found)} |-> @[n]]]]
           ELSE [status |-> "finished", log_path |-> NoPath, tree |-> t]

\* get_next_error_log: the result and the tree after the call.  The function
\* only lists directories and tests entries, so the tree is the one it got.
get_next_error_log(rootExists, t) ==
  IF ~rootExists THEN [status |-> "error", log_path |-> NoPath, tree |-> t]
  ELSE LET project_dirs == sorted({d \in DOMAIN t : isdir(t, d)})
           found == ScanProjects(t, project_dirs, 1)
       IN  IF found # NoPath
             THEN [status |-> "success", log_path |-> found, tree |-> t]
           ELSE [status |-> "finished", log_path |-> NoPath, tree |-> t]

\* os.rename(old, new) inside directory d.  It raises when the directory cannot
\* be written or when new names a directory; it replaces an existing file new.
rename_raises(t, d, old, new) ==
  \/ ~t[d].writable
  \/ (new \in DOMAIN t[d].files /\ t[d].files[new] = "dir")

os_rename(t, d, old, new) ==
  LET f == t[d].files
      g == [n \in (DOMAIN f \ {old}) \cup {new} |->
              IF n = new THEN "file" ELSE f[n]]
  IN  [t EXCEPT ![d].files = g]

\* mark_log_as_processed_by_rename: the result and the tree after the call
mark_log_as_processed_by_rename(t, log_path) ==
  IF ~isfile(t, log_path)
    THEN [status |-> "error", new_path |-> NoPath, tree |-> t]
  ELSE LET directory == dirname(log_path)
           filename == basename(log_path)
       IN  IF startswith(filename, PLUS)
             THEN [status |-> "success", new_path |-> NoPath, tree |-> t]
           ELSE LET new_filename == PLUS \o filename
                IN  IF rename_raises(t, directory, filename, new_filename)
                      THEN [status |-> "error", new_path |-> NoPath, tree |-> t]
                    ELSE [status |-> "success",
                          new_path |-> << directory, new_filename >>,
                          tree |-> os_rename(t, directory, filename, new_filename)]

(***************************************************************************)
(* The revision feed (github_commits.txt) and find_sha_for_timestamp.      *)
(* A line of the feed, after strip(), is one of                            *)
(*   k = "time"     "Time: " and a timestamp '%Y.%m.%d %H:%M' parses:      *)
(*                  date << y, m, d >> and hm, the minute of the day       *)
(*   k = "badtime"  starts with "Time: ", the rest does not parse          *)
(*   k = "sha"      "- SHA: " and a revision id                            *)
(*   k = "deco"     anything else (header, separator, empty line)          *)
(***************************************************************************)
NoDate == << >>
NoSha == << >>
Digits == {"0", "1", "2", "3", "4", "5", "6", "7", "8", "9"}

IsDigits(s) == \A i \in 1..Len(s) : s[i] \in Digits

RECURSIVE ToNat(_)
ToNat(s) ==
  IF s = << >> THEN 0
  ELSE 10 * ToNat(SubSeq(s, 1, Len(s) - 1)) + (Ord(s[Len(s)]) - Ord("0"))

IsLeap(y) == (y % 4 = 0 /\ y % 100 # 0) \/ y % 400 = 0

DaysInMonth(y, m) ==
  IF m = 2 THEN (IF IsLeap(y) THEN 29 ELSE 28)
  ELSE IF m \in {4, 6, 9, 11} THEN 30 ELSE 31

\* datetime.strptime(s, '%Y.%m.%d').date(): << y, m, d >>, or NoDate when it
\* raises ValueError.  %Y is four digits, %m and %d one or two.
strptime_date(s) ==
  LET parts == split(s, ".")
  IN  IF Len(parts) # 3 THEN NoDate
      ELSE IF \E i \in 1..3 : parts[i] = << >> \/ ~IsDigits(parts[i]) THEN NoDate
      ELSE IF Len(parts[1]) # 4 \/ Len(parts[2]) > 2 \/ Len(parts[3]) > 2 THEN NoDate
      ELSE LET y == ToNat(parts[1])
               m == ToNat(parts[2])
               d == ToNat(parts[3])
           IN  IF y >= 1 /\ m \in 1..12 /\ d >= 1 /\ d <= DaysInMonth(y, m)
                 THEN << y, m, d >> ELSE NoDate

TimeLine(date, hm) == [k |-> "time", date |-> date, hm |-> hm, sha |-> NoSha]
ShaLine(id) == [k |-> "sha", date |-> NoDate, hm |-> 0, sha |-> id]
BadTimeLine == [k |-> "badtime", date |-> NoDate, hm |-> 0, sha |-> NoSha]
DecoLine == [k |-> "deco", date |-> NoDate, hm |-> 0, sha |-> NoSha]

\* line.startswith("Time: ")
IsTimeLine(line) == line.k \in {"time", "badtime"}
\* line.startswith("- SHA: ")
IsShaLine(line) == line.k = "sha"

\* tuple comparison of (commit_datetime, sha), as min() applies it
CommitLess(a, b) ==
  \/ a.hm < b.hm
  \/ (a.hm = b.hm /\ StrLess(a.sha, b.sha))

\* the while loop of lines 157-170 with the date test of line 164 dropped
RECURSIVE ScanFeed_AnyDate(_, _, _, _)
ScanFeed_AnyDate(lines, i, target_date, daily_commits) ==
  IF i > Len(lines) THEN daily_commits
  ELSE IF IsTimeLine(lines[i]) /\ i + 1 <= Len(lines) /\ IsShaLine(lines[i + 1])
    THEN IF lines[i].k = "badtime"
           THEN ScanFeed_AnyDate(lines, i + 1, target_date, daily_commits)
         ELSE ScanFeed_AnyDate(lines, i + 3, target_date,
                daily_commits \cup {[hm |-> lines[i].hm, sha |-> lines[i + 1].sha]})
  ELSE ScanFeed_AnyDate(lines, i + 1, target_date, daily_commits)

\* the while loop of lines 157-170: i is the 1-based index of the line read.
\* After a block is parsed the code adds 2 and then 1 to i; when strptime
\* raises, only the 1.
RECURSIVE ScanFeed(_, _, _, _)
ScanFeed(lines, i, target_date, daily_commits) ==
  IF i > Len(lines) THEN daily_commits
  ELSE IF IsTimeLine(lines[i]) /\ i + 1 <= Len(lines) /\ IsShaLine(lines[i + 1])
    THEN IF lines[i].k = "badtime"
           THEN ScanFeed(lines, i + 1, target_date, daily_commits)
         ELSE IF lines[i].date = target_date
           THEN ScanFeed(lines, i + 2 + 1, target_date,
                  daily_commits \cup {[hm |-> lines[i].hm, sha |-> lines[i + 1].sha]})
         ELSE ScanFeed(lines, i + 2 + 1, target_date, daily_commits)
  ELSE ScanFeed(lines, i + 1, target_date, daily_commits)

\* a lookup that returns the revision of the first block of the date in the feed
find_sha_for_timestamp_FirstInFeed(exists, lines, target_date_str) ==
  LET target_date == strptime_date(target_date_str)
      hits == {i \in 1..(Len(lines) - 1) :
                 /\ lines[i].k = "time"
                 /\ lines[i].date = target_date
                 /\ IsShaLine(lines[i + 1])}
  IN  IF target_date = NoDate \/ ~exists \/ hits = {}
        THEN [status |-> "error", sha |-> NoSha]
      ELSE LET first == CHOOSE i \in hits : \A j \in hits : i <= j
           IN  [status |-> "success", sha |-> lines[first + 1].sha]

find_sha_for_timestamp(exists, lines, target_date_str) ==
  LET target_date == strptime_date(target_date_str)
  IN  IF target_date = NoDate THEN [status |-> "error", sha |-> NoSha]
      ELSE IF ~exists THEN [status |-> "error", sha |-> NoSha]
      ELSE LET daily_commits == ScanFeed(lines, 1, target_date, {})
           IN  IF daily_commits = {} THEN [status |-> "error", sha |-> NoSha]
               ELSE LET earliest == CHOOSE c \in daily_commits :
                                      \A o \in daily_commits \ {c} : CommitLess(c, o)
                    IN  [status |-> "success", sha |-> earliest.sha]

(***************************************************************************)
(* The inputs of find_sha_for_timestamp: every feed of at most MaxFeedLen  *)
(* lines over two dates, two times and two revision ids.                   *)
(***************************************************************************)
D1 == << 2023, 5, 10 >>
D2 == << 2023, 5, 11 >>
ShaA == << "a" >>
ShaB == << "b" >>
\* "2023.5.10", the date D1 as parse_error_log writes it
Target1 == << "2", "0", "2", "3", ".", "5", ".", "1", "0" >>
\* "2023.5.9", a date next to D1 with no record
Target0 == << "2", "0", "2", "3", ".", "5", ".", "9" >>
\* "bad", no date
TargetBad == << "b", "a", "d" >>

FeedLines ==
  {TimeLine(D1, 1), TimeLine(D1, 2), TimeLine(D2, 1), ShaLine(ShaA), ShaLine(ShaB),
   DecoLine, BadTimeLine}

FeedChoices == UNION {[1..n -> FeedLines] : n \in 0..MaxFeedLen}

\* save_data_to_file of main.py: the title, the rule and the empty line, then
\* for each (timestamp, sha) pair its Time line, its SHA line and a separator;
\* without data, one line that says so
save_data_to_file(data) ==
  IF data = << >> THEN << DecoLine, DecoLine, DecoLine, DecoLine >>
  ELSE [i \in 1..(3 + 3 * Len(data)) |->
          IF i <= 3 THEN DecoLine
          ELSE LET pair == data[((i - 4) \div 3) + 1]
               IN  CASE (i - 4) % 3 = 0 -> TimeLine(pair.date, pair.hm)
                     [] (i - 4) % 3 = 1 -> ShaLine(pair.sha)
                     [] OTHER -> DecoLine]

\* the pairs the writer is given: two dates, two times, two revision ids
PairChoices == [date : {D1, D2}, hm : {1, 2}, sha : {ShaA, ShaB}]

\* the feeds the writer makes of at most MaxBlocks pairs, in any order
WriterFeeds ==
  {save_data_to_file(data) : data \in UNION {[1..n -> PairChoices] : n \in 0..MaxBlocks}}

(***************************************************************************)
(* run_fuzz_build_streaming.  The k-th line the child prints is the        *)
(* number k.  The sink file of the project is a sequence of chunks, one    *)
(* per write that reached it: open(..., "w") leaves exactly the chunk      *)
(* written.  A chunk is the literal "success", the joined buffer, or the   *)
(* text of the exception handler.                                          *)
(***************************************************************************)
\* deque(maxlen=280)
maxlen == 280

\* a deque that drops the new line when it is full, instead of the oldest
deque_append_KeepOldest(buf, line) ==
  IF Len(buf) >= maxlen THEN buf ELSE Append(buf, line)

\* log_buffer.append(line)
deque_append(buf, line) ==
  IF Len(buf) >= maxlen THEN Append(Tail(buf), line) ELSE Append(buf, line)

SuccessChunk == [kind |-> "success", lines |-> << >>]
TailChunk(buf) == [kind |-> "tail", lines |-> buf]
MessageChunk == [kind |-> "message", lines |-> << >>]
OldChunk == [kind |-> "old", lines |-> << >>]

\* the sink opened in append mode
open_a_write(old, chunk) == Append(old, chunk)

\* with open(LOG_FILE_PATH, "w") as f: f.write(chunk)
open_w_write(old, chunk) == << chunk >>

\* lines 228-233
content_to_write(rc, buf) == IF rc = 0 THEN SuccessChunk ELSE TailChunk(buf)
status_of(rc) == IF rc = 0 THEN "success" ELSE "error"

\* the revision "master"
MASTER == << "m" >>

\* parse_error_log not called yet
NoParse == [status |-> "none", project_name |-> << >>, error_date |-> << >>]

\* the directory the process is started in, and oss_fuzz_path
HomeDir == << "h" >>
OssFuzzDir == << "o" >>

\* a call in which chdir and both git commands work
NoGit == [raises |-> "none", switch_ok |-> TRUE, checkout_ok |-> TRUE]

\* reproduce_report.xlsx does not exist
Absent == [exists |-> FALSE, rows |-> << >>]

(***************************************************************************)
(* The values of the variables a specification does not use.               *)
(***************************************************************************)
QIdle ==
  /\ logsRootExists = TRUE
  /\ tree = EmptyTree
  /\ tree0 = EmptyTree
  /\ qpc = "idle"
  /\ returned = << >>
  /\ lastMark = NoResult
  /\ secondMark = NoResult
  /\ marksOk = TRUE
  /\ alternating = TRUE
  /\ regets = 0
  /\ getPure = TRUE

FIdle ==
  /\ feedExists = TRUE
  /\ feed = << >>
  /\ target = Target1
  /\ fpc = "idle"
  /\ fres = [status |-> "none", sha |-> NoSha]

BIdle ==
  /\ bpc = "idle"
  /\ sink0 = << >>
  /\ sink = << >>
  /\ log_buffer = << >>
  /\ nread = 0
  /\ returncode = -1
  /\ bstatus = "none"
  /\ raised = FALSE

OIdle ==
  /\ opc = "idle"
  /\ iter = 0
  /\ exited = FALSE
  /\ cur = NoPath
  /\ error_date = NoDate
  /\ sha = NoSha
  /\ workcopy = MASTER
  /\ attempt = "none"
  /\ aborted = "none"
  /\ built = "none"
  /\ recordStatus = "none"
  /\ markCalledOn = NoPath
  /\ attempted = {}
  /\ repeated = FALSE
  /\ lastRank = 0
  /\ checkedOut = "none"

PIdle ==
  /\ pname = << >>
  /\ pres = NoParse

CIdle ==
  /\ isRepo = TRUE
  /\ cwd0 = HomeDir
  /\ cwd = HomeDir
  /\ head0 = MASTER
  /\ head = MASTER
  /\ csha = NoSha
  /\ cgit = NoGit
  /\ cres = "none"

TIdle ==
  /\ table = Absent
  /\ table0 = Absent
  /\ trow = << >>
  /\ tres = "none"
  /\ tcalls = 0
  /\ headers = 0

(***************************************************************************)
(* One call of find_sha_for_timestamp.                                     *)
(***************************************************************************)
FInit ==
  /\ feedExists \in BOOLEAN
  /\ feed \in (IF feedExists THEN FeedChoices \cup WriterFeeds ELSE {<< >>})
  /\ target \in {Target1, Target0, TargetBad}
  /\ fpc = "call"
  /\ fres = [status |-> "none", sha |-> NoSha]
  /\ QIdle
  /\ BIdle
  /\ OIdle
  /\ PIdle
  /\ CIdle
  /\ TIdle

FResolve ==
  /\ fpc = "call"
  /\ fres' = find_sha_for_timestamp(feedExists, feed, target)
  /\ fpc' = "done"
  /\ UNCHANGED << feedExists, feed, target >>
  /\ UNCHANGED notFeed

FNext == FResolve

SpecFeed == FInit /\ [][FNext]_vars

\* the records of a feed: a Time line that parses, directly followed by a SHA line
FeedRecords(lines) ==
  {[date |-> lines[i].date, hm |-> lines[i].hm, sha |-> lines[i + 1].sha] :
     i \in {j \in 1..(Len(lines) - 1) : lines[j].k = "time" /\ lines[j + 1].k = "sha"}}

\* a feed made of well-formed two-line blocks, with or without decorative
\* lines between them
WellFormedBlocks(lines) ==
  /\ \A i \in 1..Len(lines) : lines[i].k \in {"time", "sha", "deco"}
  /\ \A i \in 1..Len(lines) :
       lines[i].k = "time" => (i < Len(lines) /\ lines[i + 1].k = "sha")
  /\ \A i \in 1..Len(lines) :
       lines[i].k = "sha" => (i > 1 /\ lines[i - 1].k = "time")

\* C3 as stated: on a feed of well-formed blocks, separated by decorative
\* lines or not and in any order, the result for date D is the revision id of
\* a record of D with the minimum timestamp.
C3_EarliestOfDate ==
  LET D == strptime_date(target)
      onD == {r \in FeedRecords(feed) : r.date = D}
  IN  (fpc = "done" /\ feedExists /\ WellFormedBlocks(feed) /\ onD # {}) =>
        /\ fres.status = "success"
        /\ \E r \in onD : /\ r.sha = fres.sha
                          /\ \A o \in onD : r.hm <= o.hm

\* a feed as save_data_to_file writes it, with at least one block
InWriterFormat(lines) ==
  /\ Len(lines) >= 6
  /\ (Len(lines) - 3) % 3 = 0
  /\ \A i \in 1..3 : lines[i].k = "deco"
  /\ \A i \in 4..Len(lines) :
       lines[i].k = (CASE (i - 4) % 3 = 0 -> "time"
                       [] (i - 4) % 3 = 1 -> "sha"
                       [] OTHER -> "deco")

\* the pairs of a feed in the writer's format, in the order of the feed
BlocksOf(lines) ==
  [b \in 1..((Len(lines) - 3) \div 3) |->
     [date |-> lines[3 * b + 1].date, hm |-> lines[3 * b + 1].hm,
      sha |-> lines[3 * b + 2].sha]]

\* C22: on a feed in the writer's format the result for a date is the result
\* on every feed that holds the same blocks in another order, and among the
\* records of the date it is the revision id of the one with the minimum
\* timestamp, the lexicographically smallest id when several share it.
C22_OrderIndependent ==
  (fpc = "done" /\ feedExists /\ InWriterFormat(feed)) =>
    LET data == BlocksOf(feed)
        n == Len(data)
        D == strptime_date(target)
        onD == {r \in {data[b] : b \in 1..n} : r.date = D}
    IN  /\ \A pi \in Permutations(1..n) :
             find_sha_for_timestamp(TRUE, save_data_to_file([b \in 1..n |-> data[pi[b]]]),
                                    target) = fres
        /\ (D # NoDate /\ onD # {}) =>
             /\ fres.status = "success"
             /\ \E r \in onD :
                  /\ r.sha = fres.sha
                  /\ \A o \in onD :
                       \/ r.hm < o.hm
                       \/ (r.hm = o.hm /\ (r.sha = o.sha \/ StrLess(r.sha, o.sha)))

\* C22 witness: three blocks of the date, the latest first, then two that
\* share the minimum timestamp with the larger revision id before the smaller
C22_Witness ==
  /\ fpc = "done"
  /\ target = Target1
  /\ feed = save_data_to_file(<< [date |-> D1, hm |-> 2, sha |-> ShaA],
                                 [date |-> D1, hm |-> 1, sha |-> ShaB],
                                 [date |-> D1, hm |-> 1, sha |-> ShaA] >>)
  /\ fres = [status |-> "success", sha |-> ShaA]

\* C10: the result is an error whenever the feed holds no record of date D,
\* and a returned revision id is the id of a feed record whose date is D.
C10_NotFoundNoNeighbour ==
  LET D == strptime_date(target)
      onD == {r \in FeedRecords(feed) : r.date = D}
  IN  fpc = "done" =>
        /\ ((D = NoDate \/ ~feedExists \/ onD = {}) => fres.status = "error")
        /\ (fres.status = "success" => \E r \in onD : r.sha = fres.sha)

\* C10 witness: a lookup that failed although the feed holds a record of a
\* neighbouring date
C10_Witness ==
  /\ fpc = "done"
  /\ fres.status = "error"
  /\ strptime_date(target) # NoDate
  /\ FeedRecords(feed) # {}
  /\ \A r \in FeedRecords(feed) : r.date # strptime_date(target)

(***************************************************************************)
(* run_fuzz_build_streaming, statement by statement: one call, from the    *)
(* making of the log directory to the return or the uncaught exception.    *)
(***************************************************************************)
BInit ==
  /\ bpc = "makedirs"
  /\ sink0 \in {<< >>, << OldChunk >>, << SuccessChunk >>, << OldChunk, OldChunk >>}
  /\ sink = sink0
  /\ log_buffer = << >>
  /\ nread = 0
  /\ returncode = -1
  /\ bstatus = "none"
  /\ raised = FALSE
  /\ QIdle
  /\ FIdle
  /\ OIdle
  /\ PIdle
  /\ CIdle
  /\ TIdle

\* line 213, outside the try block: an OSError leaves the function
BMakedirs ==
  /\ bpc = "makedirs"
  /\ \E ok \in BOOLEAN : bpc' = IF ok THEN "spawn" ELSE "crashed"
  /\ UNCHANGED << sink0, sink, log_buffer, nread, returncode, bstatus, raised >>
  /\ UNCHANGED notBuild

\* line 220: Popen raises when the build driver cannot be started
BSpawn ==
  /\ bpc = "spawn"
  /\ \E ok \in BOOLEAN :
       /\ bpc' = IF ok THEN "reading" ELSE "handler"
       /\ raised' = ~ok
  /\ log_buffer' = << >>
  /\ UNCHANGED << sink0, sink, nread, returncode, bstatus >>
  /\ UNCHANGED notBuild

\* lines 223-225, one iteration
BReadLine ==
  /\ bpc = "reading"
  /\ nread < MaxLines
  /\ nread' = nread + 1
  /\ log_buffer' = deque_append(log_buffer, nread + 1)
  /\ UNCHANGED << bpc, sink0, sink, returncode, bstatus, raised >>
  /\ UNCHANGED notBuild

\* reading the pipe raises
BReadRaises ==
  /\ bpc = "reading"
  /\ bpc' = "handler"
  /\ raised' = TRUE
  /\ UNCHANGED << sink0, sink, log_buffer, nread, returncode, bstatus >>
  /\ UNCHANGED notBuild

\* end of the child's output, line 226
BWait ==
  /\ bpc = "reading"
  /\ returncode' \in {0, 1}
  /\ bpc' = "write"
  /\ UNCHANGED << sink0, sink, log_buffer, nread, bstatus, raised >>
  /\ UNCHANGED notBuild

\* lines 228-239
BWrite ==
  /\ bpc = "write"
  /\ \/ /\ sink' = open_w_write(sink, content_to_write(returncode, log_buffer))
        /\ bstatus' = status_of(returncode)
        /\ bpc' = "returned"
        /\ UNCHANGED raised
     \/ /\ bpc' = "handler"
        /\ raised' = TRUE
        /\ UNCHANGED << sink, bstatus >>
  /\ UNCHANGED << sink0, log_buffer, nread, returncode >>
  /\ UNCHANGED notBuild

\* lines 240-244: the write of the handler is not guarded
BHandler ==
  /\ bpc = "handler"
  /\ \/ /\ sink' = open_w_write(sink, MessageChunk)
        /\ bstatus' = "error"
        /\ bpc' = "returned"
     \/ /\ bpc' = "crashed"
        /\ UNCHANGED << sink, bstatus >>
  /\ UNCHANGED << sink0, log_buffer, nread, returncode, raised >>
  /\ UNCHANGED notBuild

BNext ==
  BMakedirs \/ BSpawn \/ BReadLine \/ BReadRaises \/ BWait \/ BWrite \/ BHandler

SpecBuild == BInit /\ [][BNext]_vars

Min(a, b) == IF a <= b THEN a ELSE b

\* the last n of the first k lines, in the order printed
LastLines(k, n) == [i \in 1..n |-> k - n + i]

C12_BuildNeverCrashes ==
  /\ bpc # "crashed"
  /\ bpc = "returned" => bstatus \in {"success", "error"}
  /\ (bpc = "returned" /\ raised /\ returncode = -1) =>
       (bstatus = "error" /\ sink = << MessageChunk >>)

(***************************************************************************)
(* The initial log trees: two root entries "p" and "q", each directory     *)
(* holding at most MaxFiles of the candidate names.                        *)
(***************************************************************************)
ProjP == << "p" >>
ProjQ == << "q" >>
\* "2023_5_10 error": an unmarked failure log with a well-formed date token
NameA == << "2", "0", "2", "3", "_", "5", "_", "1", "0", " ", "e", "r", "r", "o", "r" >>
\* "bad error": an unmarked failure log whose token is no date
NameBad == << "b", "a", "d", " ", "e", "r", "r", "o", "r" >>
\* "2023_5_10 ok": not a failure log
NameOk == << "2", "0", "2", "3", "_", "5", "_", "1", "0", " ", "o", "k" >>
\* "+2023_5_10 error": NameA already marked
PlusA == PLUS \o NameA

CandidateNames == {NameA, NameBad, NameOk, PlusA}

DirChoices ==
  UNION {[S -> {"file", "dir"}] :
           S \in {T \in SUBSET CandidateNames : Cardinality(T) <= MaxFiles}}

ProjectChoices ==
  [isdir : {TRUE}, readable : BOOLEAN, writable : BOOLEAN, files : DirChoices]

TreeChoices ==
  {[d \in {ProjP, ProjQ} |-> IF d = ProjP THEN p ELSE q] :
     p \in ProjectChoices, q \in ProjectChoices \cup {RootFile}}

(***************************************************************************)
(* The queue driver: a caller that alternates get_next_error_log and       *)
(* mark_log_as_processed_by_rename on the returned path, and that may      *)
(* repeat the mark call on the same path or the get call on the same tree. *)
(***************************************************************************)
QInit ==
  /\ logsRootExists \in BOOLEAN
  /\ tree \in (IF logsRootExists THEN TreeChoices ELSE {EmptyTree})
  /\ tree0 = tree
  /\ qpc = "get"
  /\ returned = << >>
  /\ lastMark = NoResult
  /\ secondMark = NoResult
  /\ marksOk = TRUE
  /\ alternating = TRUE
  /\ regets = 0
  /\ getPure = TRUE
  /\ FIdle
  /\ BIdle
  /\ OIdle
  /\ PIdle
  /\ CIdle
  /\ TIdle

QGet ==
  /\ qpc = "get"
  /\ Len(returned) < MaxGets
  /\ LET r == get_next_error_log(logsRootExists, tree)
     IN  /\ tree' = r.tree
         /\ returned' = IF r.status = "success"
                          THEN Append(returned, r.log_path) ELSE returned
         /\ qpc' = CASE r.status = "success" -> "mark"
                     [] r.status = "finished" -> "finished"
                     [] OTHER -> "error"
         /\ getPure' = (getPure /\ r.tree = tree)
  /\ regets' = 0
  /\ UNCHANGED << logsRootExists, tree0, lastMark, secondMark, marksOk,
                  alternating >>
  /\ UNCHANGED notQueue

\* the result of the latest get_next_error_log call, while no mark call followed
LastGet ==
  CASE qpc = "mark" -> [status |-> "success", log_path |-> returned[Len(returned)]]
    [] qpc = "finished" -> [status |-> "finished", log_path |-> NoPath]
    [] OTHER -> [status |-> "error", log_path |-> NoPath]

\* get_next_error_log once more, with no mark call since the latest call
QGetAgain ==
  /\ qpc \in {"mark", "finished", "error"}
  /\ regets < MaxRegets
  /\ LET r == get_next_error_log(logsRootExists, tree)
     IN  /\ tree' = r.tree
         /\ getPure' = (/\ getPure
                        /\ r.tree = tree
                        /\ [status |-> r.status, log_path |-> r.log_path] = LastGet)
  /\ regets' = regets + 1
  /\ alternating' = FALSE
  /\ UNCHANGED << logsRootExists, tree0, qpc, returned, lastMark, secondMark,
                  marksOk >>
  /\ UNCHANGED notQueue

QMark ==
  /\ qpc = "mark"
  /\ LET m == mark_log_as_processed_by_rename(tree, returned[Len(returned)])
     IN  /\ tree' = m.tree
         /\ lastMark' = [status |-> m.status, new_path |-> m.new_path]
         /\ marksOk' = (marksOk /\ m.status = "success")
  /\ secondMark' = NoResult
  /\ qpc' = "get"
  /\ regets' = 0
  /\ UNCHANGED << logsRootExists, tree0, returned, alternating, getPure >>
  /\ UNCHANGED notQueue

\* the same call once more, on the same path
QMarkAgain ==
  /\ qpc = "get"
  /\ lastMark # NoResult
  /\ secondMark = NoResult
  /\ LET m == mark_log_as_processed_by_rename(tree, returned[Len(returned)])
     IN  /\ tree' = m.tree
         /\ secondMark' = [status |-> m.status, new_path |-> m.new_path]
  /\ alternating' = FALSE
  /\ UNCHANGED << logsRootExists, tree0, qpc, returned, lastMark, marksOk,
                  regets, getPure >>
  /\ UNCHANGED notQueue

QNext == QGet \/ QGetAgain \/ QMark \/ QMarkAgain

SpecQueue == QInit /\ [][QNext]_vars

(***************************************************************************)
(* Claims about the log queue.                                             *)
(***************************************************************************)
PathLess(a, b) ==
  \/ StrLess(a[1], b[1])
  \/ (a[1] = b[1] /\ StrLess(a[2], b[2]))

\* in lexical order of project directory and then of filename, nothing twice
InLexicalOrder(seq) ==
  \A i \in 1..Len(seq) : \A j \in 1..Len(seq) : i < j => PathLess(seq[i], seq[j])

Range(seq) == {seq[i] : i \in 1..Len(seq)}

\* the regular files of the project directories of t whose name does not start
\* with '+' and contains "error"
UnmarkedErrorFiles(t) ==
  {pth \in UNION {{<< d, n >> : n \in DOMAIN t[d].files} : d \in DOMAIN t} :
     /\ isfile(t, pth)
     /\ ~startswith(basename(pth), PLUS)
     /\ Contains(basename(pth), ERROR_WORD)}

ReadableUnmarkedErrorFiles(t) ==
  {pth \in UnmarkedErrorFiles(t) : t[dirname(pth)].readable}

C19_UnreadableSkipped ==
  (logsRootExists /\ qpc # "get") =>
    LET R == ReadableUnmarkedErrorFiles(tree)
    IN  IF R = {} THEN LastGet.status = "finished"
        ELSE /\ LastGet.status = "success"
             /\ LastGet.log_path \in R
             /\ \A other \in R \ {LastGet.log_path} : PathLess(LastGet.log_path, other)

\* C19 witness: project "p" cannot be listed and holds an unmarked failure
\* log, and the call returned a log of project "q"
C19_Witness ==
  /\ qpc = "mark"
  /\ ~tree[ProjP].readable
  /\ \E pth \in UnmarkedErrorFiles(tree) : dirname(pth) = ProjP
  /\ dirname(LastGet.log_path) = ProjQ

\* C21 as stated: after a successful mark_log_as_processed_by_rename call the
\* names in the entry's directory are those before the call with the entry's
\* name replaced by '+' and the name, and their number is unchanged, also when
\* '+' and the name was there before; no other directory is touched.  (After
\* the first mark call of a run the tree before the call is tree0.)
C21_MarkKeepsOtherEntries ==
  (Len(returned) = 1 /\ qpc = "get" /\ lastMark.status = "success"
     /\ secondMark = NoResult) =>
    LET d == dirname(returned[1])
        name == basename(returned[1])
        before == DOMAIN tree0[d].files
        after == DOMAIN tree[d].files
    IN  /\ after = (before \ {name}) \cup {PLUS \o name}
        /\ Cardinality(after) = Cardinality(before)
        /\ \A n \in before \ {name} : n \in after /\ tree[d].files[n] = tree0[d].files[n]
        /\ \A e \in DOMAIN tree \ {d} : tree[e] = tree0[e]

\* C2 as stated: two calls of mark_log_as_processed_by_rename on the path
\* get_next_error_log returned both report 'success' and leave the file under
\* its name with exactly one marker prepended.
C2_MarkTwiceSucceeds ==
  (lastMark.status = "success" /\ secondMark # NoResult) =>
    LET pth == returned[Len(returned)]
    IN  /\ secondMark.status = "success"
        /\ isfile(tree, << dirname(pth), PLUS \o basename(pth) >>)
        /\ ~isfile(tree, pth)
        /\ ~isfile(tree, << dirname(pth), PLUS \o PLUS \o basename(pth) >>)

(***************************************************************************)
(* parse_error_log, checkout_oss_fuzz_commit and the whole of              *)
(* run_fuzz_build_streaming as operators.                                  *)
(***************************************************************************)
parse_error_log(log_path) ==
  LET project_name == dirname(log_path)
      filename == basename(log_path)
      date_string == split(filename, " ")[1]
      parts == split(date_string, "_")
  IN  IF Len(parts) # 3
        THEN [status |-> "error", project_name |-> << >>, error_date |-> << >>]
      ELSE [status |-> "success", project_name |-> project_name,
            error_date |-> join(parts, ".")]

\* the finally block left out: the process stays where the body left it
finally_chdir_Stay(original_path, now) == now

\* the finally block, line 203
finally_chdir(original_path, now) == original_path

\* dir: the current working directory at the call; wc: the revision of the
\* working copy.  git: what the environment does in the call:
\*   raises: "chdir" (line 191 raises), "run" (subprocess.run cannot start
\*     git and raises), "none";
\*   switch_ok, checkout_ok: the exit code of the git command is 0.
\* The result of "git switch master" is not looked at (line 193).
checkout_oss_fuzz_commit(is_repo, dir, wc, target_sha, git) ==
  IF ~is_repo THEN [status |-> "error", workcopy |-> wc, cwd |-> dir]
  ELSE LET original_path == dir
           after_switch == IF git.switch_ok THEN MASTER ELSE wc
           body ==
             CASE git.raises = "chdir" ->
                    [status |-> "error", workcopy |-> wc, cwd |-> dir]
               [] git.raises = "run" ->
                    [status |-> "error", workcopy |-> wc, cwd |-> OssFuzzDir]
               [] OTHER ->
                    IF git.checkout_ok
                      THEN [status |-> "success", workcopy |-> target_sha,
                            cwd |-> OssFuzzDir]
                    ELSE [status |-> "error", workcopy |-> after_switch,
                          cwd |-> OssFuzzDir]
       IN  [body EXCEPT !.cwd = finally_chdir(original_path, body.cwd)]

GitOutcomes ==
  [raises : {"none", "chdir", "run"}, switch_ok : BOOLEAN, checkout_ok : BOOLEAN]

\* the deque after the loop of lines 223-225 read n lines
RECURSIVE read_lines(_)
read_lines(n) == IF n = 0 THEN << >> ELSE deque_append(read_lines(n - 1), n)

\* env: what the environment does in one call:
\*   makedirs_ok, spawn_ok, lines (printed by the child), read_ok, rc,
\*   write_ok (line 235), handler_ok (line 242)
run_fuzz_build_streaming(old_sink, env) ==
  LET handler ==
        IF env.handler_ok
          THEN [crashed |-> FALSE, status |-> "error",
                sink |-> open_w_write(old_sink, MessageChunk)]
        ELSE [crashed |-> TRUE, status |-> "none", sink |-> old_sink]
  IN  IF ~env.makedirs_ok
        THEN [crashed |-> TRUE, status |-> "none", sink |-> old_sink]
      ELSE IF ~env.spawn_ok \/ ~env.read_ok \/ ~env.write_ok THEN handler
      ELSE [crashed |-> FALSE, status |-> status_of(env.rc),
            sink |-> open_w_write(old_sink,
                       content_to_write(env.rc, read_lines(env.lines)))]

BuildEnv(mk, sp, n, rd, rc, wr, h) ==
  [makedirs_ok |-> mk, spawn_ok |-> sp, lines |-> n, read_ok |-> rd, rc |-> rc,
   write_ok |-> wr, handler_ok |-> h]

\* the outcomes the loop is run with: a build that succeeds, one that fails,
\* a driver that cannot be started, a log directory that cannot be made
BuildEnvs ==
  {BuildEnv(TRUE, TRUE, 1, TRUE, 0, TRUE, TRUE),
   BuildEnv(TRUE, TRUE, 1, TRUE, 1, TRUE, TRUE),
   BuildEnv(TRUE, FALSE, 0, TRUE, 1, TRUE, TRUE),
   BuildEnv(FALSE, TRUE, 0, TRUE, 1, TRUE, TRUE)}

(***************************************************************************)
(* One call of checkout_oss_fuzz_commit: the process is in its start       *)
(* directory or in oss_fuzz_path, the working copy is at master or at a    *)
(* revision, and chdir and the two git commands work or fail.              *)
(***************************************************************************)
CInit ==
  /\ isRepo \in BOOLEAN
  /\ cwd0 \in {HomeDir, OssFuzzDir}
  /\ cwd = cwd0
  /\ head0 \in {MASTER, ShaA, ShaB}
  /\ head = head0
  /\ csha \in {ShaA, ShaB}
  /\ cgit = NoGit
  /\ cres = "none"
  /\ QIdle
  /\ FIdle
  /\ BIdle
  /\ OIdle
  /\ PIdle
  /\ TIdle

CCheckout ==
  /\ cres = "none"
  /\ \E git \in GitOutcomes :
       LET r == checkout_oss_fuzz_commit(isRepo, cwd, head, csha, git)
       IN  /\ head' = r.workcopy
           /\ cwd' = r.cwd
           /\ cres' = r.status
           /\ cgit' = git
  /\ UNCHANGED << isRepo, cwd0, head0, csha >>
  /\ UNCHANGED notCheckout

CNext == CCheckout

SpecCheckout == CInit /\ [][CNext]_vars

\* the call ran its git commands: the directory is a repository, chdir worked
\* and git could be started
RanGit == isRepo /\ cgit.raises = "none"

\* C14 as stated: a non-zero exit of either git command, the switch to master
\* as well as the checkout of the target revision, gives status 'error', and
\* status 'success' is returned only if both commands exited 0.
C14_EveryGitFailureSurfaced ==
  cres # "none" =>
    /\ (RanGit /\ ~(cgit.switch_ok /\ cgit.checkout_ok)) => cres = "error"
    /\ cres = "success" => (RanGit /\ cgit.switch_ok /\ cgit.checkout_ok)

NameAlphabet == {"1", "a", "_", " "}

RECURSIVE NamesOfLen(_)
NamesOfLen(n) ==
  IF n = 0 THEN {<< >>}
  ELSE {Append(w, c) : w \in NamesOfLen(n - 1), c \in NameAlphabet}

ParseNames == UNION {NamesOfLen(n) : n \in 1..MaxNameLen}

PInit ==
  /\ pname \in ParseNames
  /\ pres = NoParse
  /\ QIdle
  /\ FIdle
  /\ BIdle
  /\ OIdle
  /\ CIdle
  /\ TIdle

PParse ==
  /\ pres.status = "none"
  /\ pres' = parse_error_log(<< ProjP, pname >>)
  /\ UNCHANGED pname
  /\ UNCHANGED notParse

PNext == PParse

SpecParse == PInit /\ [][PNext]_vars

\* a nonempty string of digits
NumericPart(w) == w # << >> /\ IsDigits(w)

\* the token of a file name up to the first space, cut at the underscores
TokenParts(filename) == split(split(filename, " ")[1], "_")

\* C13 as stated: parse_error_log returns 'success' exactly for the file names
\* whose token up to the first space is three numeric parts joined by '_', and
\* 'error' for every other name.
C13_ThreeNumericParts ==
  pres.status # "none" =>
    LET parts == TokenParts(pname)
    IN  IF Len(parts) = 3 /\ \A i \in 1..3 : NumericPart(parts[i])
          THEN pres.status = "success"
        ELSE pres.status = "error"

(***************************************************************************)
(* update_reproduce_table and a caller that calls it up to MaxCalls times. *)
(* The file reproduce_report.xlsx is [exists, rows], rows being the rows   *)
(* of the active sheet from the top.  A statement that raises leaves the   *)
(* file as the statements before it left it.                               *)
(***************************************************************************)
\* the five column titles of line 256
HEADER == << "project", "date", "category", "failure_reason", "consistent" >>

RowA == << "p", "2023.5.10", "c1", "r1", "yes" >>
RowB == << "q", "2023.5.11", "c2", "r2", "no" >>

\* the statement of the function that raises in a call, if any: the save of
\* the new file (line 269), load_workbook (272), sheet.append (279), the save
\* of line 282
FailPoints == {"none", "create", "load", "append", "save"}

\* an append that starts the sheet again
sheet_append_Rewrite(rows, data_row) == << HEADER, data_row >>

\* sheet.append(data_row), line 279: the row goes below the last row
sheet_append(rows, data_row) == Append(rows, data_row)

update_reproduce_table(tab, data_row, fails_at) ==
  IF ~tab.exists /\ fails_at = "create"
    THEN [status |-> "error", table |-> tab, header_written |-> FALSE]
  ELSE LET created == ~tab.exists
           tab1 == IF created THEN [exists |-> TRUE, rows |-> << HEADER >>] ELSE tab
       IN  IF fails_at \in {"load", "append", "save"}
             THEN [status |-> "error", table |-> tab1, header_written |-> created]
           ELSE [status |-> "success",
                 table |-> [tab1 EXCEPT !.rows = sheet_append(tab1.rows, data_row)],
                 header_written |-> created]

Sheet(rows) == [exists |-> TRUE, rows |-> rows]

TInit ==
  /\ table \in {Absent, Sheet(<< >>), Sheet(<< HEADER >>), Sheet(<< HEADER, RowA >>),
                 Sheet(<< RowB, RowA >>)}
  /\ table0 = table
  /\ trow = << >>
  /\ tres = "none"
  /\ tcalls = 0
  /\ headers = 0
  /\ QIdle
  /\ FIdle
  /\ BIdle
  /\ OIdle
  /\ PIdle
  /\ CIdle

TUpdate ==
  /\ tcalls < MaxCalls
  /\ \E data_row \in {RowA, RowB}, fails_at \in FailPoints :
       LET r == update_reproduce_table(table, data_row, fails_at)
       IN  /\ table' = r.table
           /\ tres' = r.status
           /\ trow' = data_row
           /\ headers' = headers + (IF r.header_written THEN 1 ELSE 0)
  /\ table0' = table
  /\ tcalls' = tcalls + 1
  /\ UNCHANGED notTable

TNext == TUpdate

SpecTable == TInit /\ [][TNext]_vars

\* what a successful call adds to the file it found: one data row at the end,
\* below the header row if it had to make the file
OneRowAppended ==
  /\ table.exists
  /\ Len(trow) = 5
  /\ table.rows = (IF table0.exists THEN table0.rows ELSE << HEADER >>) \o << trow >>

\* the header row is written at most once, and by the call that found no file
HeaderOnce ==
  /\ headers <= 1
  /\ (table.exists /\ ~table0.exists) => (headers = 1 /\ Head(table.rows) = HEADER)

max_iterations == 1000

StageOf(pc) ==
  CASE pc = "fetch" -> 9
    [] pc = "parse" -> 8
    [] pc = "resolve" -> 7
    [] pc = "checkout" -> 6
    [] pc = "build" -> 5
    [] pc = "classify" -> 4
    [] pc = "record" -> 3
    [] pc = "mark" -> 2
    [] OTHER -> 0

\* a measure every step of the loop decreases: the iterations left, then the
\* steps left in the iteration
Rank == (max_iterations - iter) * 10 + StageOf(opc)

\* "2023_5_9 error": a failure log of a date the feed has no revision for
NameNoRev == << "2", "0", "2", "3", "_", "5", "_", "9", " ", "e", "r", "r", "o", "r" >>

File(names) == [n \in names |-> "file"]

OProjP ==
  {[isdir |-> TRUE, readable |-> TRUE, writable |-> w, files |-> f] :
     w \in BOOLEAN,
     f \in {File({NameA}), File({NameA, NameBad}), File({NameNoRev}),
            [n \in {NameA, PlusA} |-> IF n = PlusA THEN "dir" ELSE "file"]}}

\* "2023_5_11 error": a failure log of the day after NameA's
NameB == << "2", "0", "2", "3", "_", "5", "_", "1", "1", " ", "e", "r", "r", "o", "r" >>

OProjQ ==
  {[isdir |-> TRUE, readable |-> r, writable |-> TRUE, files |-> f] :
     r \in BOOLEAN, f \in {NoFiles, File({NameB})}}

OTreeChoices ==
  {[d \in {ProjP, ProjQ} |-> IF d = ProjP THEN p ELSE q] : p \in OProjP, q \in OProjQ}

\* github_commits.txt as save_data_to_file writes it: three header lines, then
\* each block followed by a separator
OFeed ==
  << DecoLine, DecoLine, DecoLine,
     TimeLine(D1, 2), ShaLine(ShaA), DecoLine,
     TimeLine(D1, 1), ShaLine(ShaB), DecoLine,
     TimeLine(D2, 1), ShaLine(ShaA), DecoLine >>

OInit ==
  /\ logsRootExists \in BOOLEAN
  /\ tree \in (IF logsRootExists THEN OTreeChoices ELSE {EmptyTree})
  /\ tree0 = tree
  /\ qpc = "idle"
  /\ returned = << >>
  /\ lastMark = NoResult
  /\ secondMark = NoResult
  /\ marksOk = TRUE
  /\ alternating = TRUE
  /\ feedExists = TRUE
  /\ feed = OFeed
  /\ target = Target1
  /\ fpc = "idle"
  /\ fres = [status |-> "none", sha |-> NoSha]
  /\ BIdle
  /\ opc = "fetch"
  /\ iter = 0
  /\ exited = FALSE
  /\ cur = NoPath
  /\ error_date = NoDate
  /\ sha = NoSha
  /\ workcopy = MASTER
  /\ attempt = "none"
  /\ aborted = "none"
  /\ built = "none"
  /\ recordStatus = "none"
  /\ markCalledOn = NoPath
  /\ attempted = {}
  /\ repeated = FALSE
  /\ lastRank = Rank + 1
  /\ checkedOut = "none"
  /\ regets = 0
  /\ getPure = TRUE
  /\ PIdle
  /\ CIdle
  /\ TIdle

notLoopNorCwd ==
  << logsRootExists, tree0, qpc, returned, lastMark, secondMark, marksOk,
     alternating, regets, getPure, fvars, bvars, pvars, tvars,
     isRepo, cwd0, head0, head, csha, cgit, cres >>

notLoop == << notLoopNorCwd, cwd >>

\* LoopAgent: the end of one pass over the sub-agents
EndIteration ==
  /\ iter' = iter + 1
  /\ opc' = IF iter + 1 < max_iterations THEN "fetch" ELSE "done"

\* build_fuzzer_agent, steps 1 and 2: get_next_error_log, and exit_loop on 'finished'
OFetch ==
  /\ opc = "fetch"
  /\ iter < max_iterations
  /\ LET r == get_next_error_log(logsRootExists, tree)
     IN  /\ tree' = r.tree
         /\ \/ /\ r.status = "finished"
               /\ exited' = TRUE
               /\ opc' = "done"
               /\ UNCHANGED << cur, error_date, sha, attempt, aborted, built,
                               recordStatus, markCalledOn, attempted, repeated,
                               checkedOut >>
            \/ /\ r.status = "success"
               /\ cur' = r.log_path
               /\ repeated' = (repeated \/ r.log_path \in attempted)
               /\ attempted' = attempted \cup {r.log_path}
               /\ opc' = "parse"
               /\ error_date' = NoDate
               /\ sha' = NoSha
               /\ attempt' = "none"
               /\ aborted' = "none"
               /\ built' = "none"
               /\ recordStatus' = "none"
               /\ markCalledOn' = NoPath
               /\ checkedOut' = "none"
               /\ UNCHANGED exited
            \/ /\ r.status = "error"
               /\ cur' = NoPath
               /\ attempt' = "error"
               /\ aborted' = "fetch"
               /\ opc' = "classify"
               /\ error_date' = NoDate
               /\ sha' = NoSha
               /\ built' = "none"
               /\ recordStatus' = "none"
               /\ markCalledOn' = NoPath
               /\ checkedOut' = "none"
               /\ UNCHANGED << exited, attempted, repeated >>
  /\ UNCHANGED << iter, workcopy >>
  /\ lastRank' = Rank
  /\ UNCHANGED notLoop

\* step 3, parse_error_log
OParse ==
  /\ opc = "parse"
  /\ LET r == parse_error_log(cur)
     IN  IF r.status = "success"
           THEN /\ error_date' = r.error_date
                /\ opc' = "resolve"
                /\ UNCHANGED << attempt, aborted >>
         ELSE /\ aborted' = "parse"
              /\ attempt' = "error"
              /\ opc' = "classify"
              /\ UNCHANGED error_date
  /\ UNCHANGED << iter, exited, cur, sha, workcopy, built, recordStatus,
                  markCalledOn, attempted, repeated, tree, checkedOut >>
  /\ lastRank' = Rank
  /\ UNCHANGED notLoop

\* step 3, find_sha_for_timestamp
OResolve ==
  /\ opc = "resolve"
  /\ LET r == find_sha_for_timestamp(feedExists, feed, error_date)
     IN  IF r.status = "success"
           THEN /\ sha' = r.sha
                /\ opc' = "checkout"
                /\ UNCHANGED << attempt, aborted >>
         ELSE /\ aborted' = "resolve"
              /\ attempt' = "error"
              /\ opc' = "classify"
              /\ UNCHANGED sha
  /\ UNCHANGED << iter, exited, cur, error_date, workcopy, built, recordStatus,
                  markCalledOn, attempted, repeated, tree, checkedOut >>
  /\ lastRank' = Rank
  /\ UNCHANGED notLoop

\* step 3, checkout_oss_fuzz_commit
OCheckout ==
  /\ opc = "checkout"
  /\ \E git \in GitOutcomes :
       LET r == checkout_oss_fuzz_commit(isRepo, cwd, workcopy, sha, git)
       IN  /\ workcopy' = r.workcopy
           /\ cwd' = r.cwd
           /\ checkedOut' = r.status
           /\ \/ /\ r.status = "success"
                 /\ opc' = "build"
                 /\ UNCHANGED << attempt, aborted >>
              \/ /\ r.status = "error"
                 /\ aborted' = "checkout"
                 /\ attempt' = "error"
                 /\ opc' = "classify"
              \/ /\ r.status = "error"
                 /\ opc' = "build"
                 /\ UNCHANGED << attempt, aborted >>
  /\ UNCHANGED << iter, exited, cur, error_date, sha, built, recordStatus,
                  markCalledOn, attempted, repeated, tree >>
  /\ lastRank' = Rank
  /\ UNCHANGED notLoopNorCwd

\* step 3, run_fuzz_build_streaming; an exception it does not catch ends the run
OBuild ==
  /\ opc = "build"
  /\ \E env \in BuildEnvs :
       LET r == run_fuzz_build_streaming(<< >>, env)
       IN  IF r.crashed
             THEN /\ opc' = "crashed"
                  /\ UNCHANGED << built, attempt >>
           ELSE /\ built' = r.status
                /\ attempt' = r.status
                /\ opc' = "classify"
  /\ UNCHANGED << iter, exited, cur, error_date, sha, workcopy, aborted,
                  recordStatus, markCalledOn, attempted, repeated, tree,
                  checkedOut >>
  /\ lastRank' = Rank
  /\ UNCHANGED notLoop

\* a classifier that records every cycle in the table
BranchOf_AlwaysRecord(status) == "record"

\* classify_agent, step 2: 'success' goes straight to the mark call, 'error'
\* to the analysis and the table
BranchOf(status) == IF status = "success" THEN "mark" ELSE "record"

\* classify_agent, step 2: the branch on the status of build_attempt_result.
\* Without a log_path (the fetch failed) it has nothing to record or mark.
OClassify ==
  /\ opc = "classify"
  /\ \/ /\ cur = NoPath
        /\ EndIteration
     \/ /\ cur # NoPath
        /\ attempt = "success"
        /\ opc' = BranchOf(attempt)
        /\ UNCHANGED iter
     \/ /\ cur # NoPath
        /\ attempt = "error"
        /\ opc' = BranchOf(attempt)
        /\ UNCHANGED iter
  /\ UNCHANGED << exited, cur, error_date, sha, workcopy, attempt, aborted, built,
                  recordStatus, markCalledOn, attempted, repeated, tree,
                  checkedOut >>
  /\ lastRank' = Rank
  /\ UNCHANGED notLoop

\* step f of the 'error' branch keeps only the runs in which recording worked
MarkAfterRecording_OnlyIfRecorded(record_status) == record_status = "success"

\* step f of the 'error' branch: whether recording succeeded or not, the log is marked
MarkAfterRecording(record_status) == TRUE

\* classify_agent, steps a-e of the 'error' branch: update_reproduce_table, which
\* turns every exception into status 'error'.  The loop keeps the status of the
\* call; the rows of the table are followed in SpecTable.
ORecord ==
  /\ opc = "record"
  /\ \E st \in {"success", "error"} :
       /\ recordStatus' = st
       /\ IF MarkAfterRecording(st)
            THEN opc' = "mark" /\ UNCHANGED iter
          ELSE EndIteration
  /\ UNCHANGED << exited, cur, error_date, sha, workcopy, attempt, aborted, built,
                  markCalledOn, attempted, repeated, tree, checkedOut >>
  /\ lastRank' = Rank
  /\ UNCHANGED notLoop

\* classify_agent: mark_log_as_processed_by_rename on log_path of the attempt result
OMark ==
  /\ opc = "mark"
  /\ LET m == mark_log_as_processed_by_rename(tree, cur)
     IN  tree' = m.tree
  /\ markCalledOn' = cur
  /\ EndIteration
  /\ UNCHANGED << exited, cur, error_date, sha, workcopy, attempt, aborted, built,
                  recordStatus, attempted, repeated, checkedOut >>
  /\ lastRank' = Rank
  /\ UNCHANGED notLoop

Next ==
  OFetch \/ OParse \/ OResolve \/ OCheckout \/ OBuild \/ OClassify \/ ORecord \/ OMark

Init == OInit

Spec == Init /\ [][Next]_vars

(***************************************************************************)
(* Claims about the loop.                                                  *)
(***************************************************************************)
BetweenCycles == opc \in {"fetch", "done"}

\* C4 as stated: in one run no log is fetched and taken through the
\* reproduction steps more than once.
C4_OneAttemptPerLog == ~repeated

\* C5: after every cycle that produced a build outcome, and before the next
\* fetch, mark_log_as_processed_by_rename was called on the entry's path, also
\* when update_reproduce_table returned 'error'.
C5_MarkedAfterBuild ==
  (BetweenCycles /\ built # "none") => (cur # NoPath /\ markCalledOn = cur)

\* C5 witness: a cycle whose build failed and whose recording failed is over,
\* and the entry was marked
C5_Witness ==
  /\ opc = "fetch"
  /\ built = "error"
  /\ recordStatus = "error"
  /\ markCalledOn = cur
  /\ ~isfile(tree, cur)

\* the file of the current entry carries the marker: it is there under '+' and
\* its name, and no longer under its name
Renamed ==
  /\ isfile(tree, << dirname(cur), PLUS \o basename(cur) >>)
  /\ ~isfile(tree, cur)

\* C11 as stated: after a cycle in which checkout and build both succeeded the
\* attempt result has status 'success', update_reproduce_table was not called,
\* and the entry's file is renamed with the '+' marker.
C11_SuccessCycleRenames ==
  (BetweenCycles /\ checkedOut = "success" /\ built = "success") =>
    /\ attempt = "success"
    /\ recordStatus = "none"
    /\ Renamed

\* C11 amended: after a cycle in which checkout and build both succeeded the
\* attempt result has status 'success', update_reproduce_table was not called,
\* mark_log_as_processed_by_rename was called on the entry's path, and the
\* entry's file is renamed with the '+' marker unless os.rename raises.
C11_SuccessCycleMarks ==
  (BetweenCycles /\ checkedOut = "success" /\ built = "success") =>
    /\ attempt = "success"
    /\ recordStatus = "none"
    /\ markCalledOn = cur
    /\ \/ Renamed
       \/ /\ isfile(tree, cur)
          /\ rename_raises(tree, dirname(cur), basename(cur), PLUS \o basename(cur))

\* C11 witness: a cycle whose checkout and build succeeded is over and the
\* entry's file carries the marker
C11_Witness ==
  /\ opc = "fetch"
  /\ checkedOut = "success"
  /\ built = "success"
  /\ recordStatus = "none"
  /\ markCalledOn = cur
  /\ Renamed

\* C15 as stated: with the log root missing get_next_error_log returns status
\* 'error', and the run then stops: none of parse, lookup, checkout, build and
\* mark is called and the fetch is not called again.
C15_MissingRootIsFatal ==
  ~logsRootExists =>
    /\ get_next_error_log(logsRootExists, tree).status = "error"
    /\ aborted = "fetch" =>
         /\ cur = NoPath
         /\ error_date = NoDate
         /\ sha = NoSha
         /\ checkedOut = "none"
         /\ built = "none"
         /\ markCalledOn = NoPath
    /\ ~(aborted = "fetch" /\ opc = "classify" /\ iter >= 1)

\* C17 as stated: when run_fuzz_build_streaming has been invoked in a cycle,
\* parse_error_log, find_sha_for_timestamp and checkout_oss_fuzz_commit each
\* returned 'success' before it in that cycle, and the working copy is at the
\* revision resolved for the entry's date, not where an earlier entry left it.
C17_BuildOnlyAfterCheckout ==
  (built # "none" \/ opc = "crashed") =>
    /\ error_date # NoDate
    /\ sha # NoSha
    /\ checkedOut = "success"
    /\ workcopy = sha

\* C6 as stated: after a cycle that aborted at parse, lookup or checkout the
\* entry's file is still there under its unmarked name.
C6_AbortLeavesUnmarked ==
  (BetweenCycles /\ aborted \in {"parse", "resolve", "checkout"}) => isfile(tree, cur)

\* every step brings the run nearer to its end, a fetch is never left waiting
\* at the ceiling, the run is over at the latest after max_iterations
\* iterations, and it is over at once when exit_loop was called
StopsInTime ==
  /\ iter <= max_iterations
  /\ Rank >= 0
  /\ Rank < lastRank
  /\ (opc = "fetch" => iter < max_iterations)
  /\ (opc = "done" => (exited \/ iter = max_iterations))
  /\ (exited => opc = "done")

\* C7 as stated: the loop terminates, through 'finished' or after at most 1000
\* iterations, and when it stops through 'finished' no unmarked failure log
\* remains in the log tree.
C7_TerminatesNoLogLeft ==
  /\ StopsInTime
  /\ (exited => UnmarkedErrorFiles(tree) = {})

\* C7 amended: the loop terminates, through 'finished' or after at most 1000
\* iterations, and when it stops through 'finished' no unmarked failure log
\* remains in a readable project directory of the log tree.
C7_TerminatesNoReadableLogLeft ==
  /\ StopsInTime
  /\ (exited => ReadableUnmarkedErrorFiles(tree) = {})

\* C7 witness: a run that stopped through 'finished' after it marked logs of
\* both projects
C7_Witness ==
  /\ opc = "done"
  /\ exited
  /\ iter >= 2
  /\ \E pth \in UnmarkedErrorFiles(tree0) : dirname(pth) = ProjP /\ ~isfile(tree, pth)
  /\ \E pth \in UnmarkedErrorFiles(tree0) : dirname(pth) = ProjQ /\ ~isfile(tree, pth)

\* a run that the iteration ceiling stopped
C7_CeilingReached == opc = "done" /\ ~exited /\ iter = max_iterations

====
